---- MODULE Spec2Model ----
(***************************************************************************)
(* A model of the shape, routing and bookkeeping logic of                  *)
(*   src/layers.py         (seq, Layer)                                    *)
(*   src/Models/WRN_MOS.py (BasicBlock, Network)                           *)
(* Tensors are modelled by what the control flow can observe of them: an   *)
(* identity, a channel count, a spatial size, or the chain of modules that *)
(* produced them.  Numeric contents are not modelled.                      *)
(***************************************************************************)
EXTENDS Integers, Sequences, FiniteSets, TLC

(***************************************************************************)
(* Bounds of the model.                                                    *)
(***************************************************************************)
MaxIn == 2
MaxBottle == 2
MaxOut == 4
MaxPlanes == 3
MaxHW == 4
MaxK == 4
MaxD == 3
MaxWiden == 3
MaxDepth == 22
MaxClasses == 3
MaxMaxJ == 2
MaxCalls == 4

VARIABLES
    layer,  \* the Layer object (self) after Layer.__init__
    lfwd,   \* the frame of one Layer.forward call
    block,  \* a BasicBlock object (self) after BasicBlock.__init__
    bfwd,   \* the frame of one BasicBlock.forward call
    sq,     \* a seq object (self) after seq.__init__
    sfwd,   \* the frame of one seq.forward call
    net,    \* the Network object (self), during and after Network.__init__
    nfwd,   \* what the last Network.forward call read of the fc output
    update_calls  \* history: the number of update_lr calls made so far

vars == <<layer, lfwd, block, bfwd, sq, sfwd, net, nfwd, update_calls>>

(***************************************************************************)
(* An n x n spatial size through a 2-d convolution (torch.nn.Conv2d):      *)
(* floor((in + 2*padding - dilation*(kernel-1) - 1) / stride) + 1          *)
(***************************************************************************)
ConvOut(in, k, p, d, st) == ((in + 2 * p - d * (k - 1) - 1) \div st) + 1
\* the padded input must be at least as large as the dilated kernel
ConvFits(in, k, p, d) == in + 2 * p - d * (k - 1) - 1 >= 0

(***************************************************************************)
(* layers.py : seq                                                         *)
(***************************************************************************)
\* Mutation of Padding: the dilation is ignored
PaddingNoDilation(k, d) == k \div 2

\* seq.__init__, line 105: the padding of one spatial axis
Padding(k, d) == (k + ((k - 1) * (d - 1))) \div 2

\* seq.__init__: the convolution it builds (stride is Conv2d's default 1)
SeqInit(ks, dil) ==
    [kernel_size |-> ks,
     dilation |-> dil,
     padding |-> <<Padding(ks[1], dil[1]), Padding(ks[2], dil[2])>>,
     stride |-> <<1, 1>>]

SeqEntry(h, w) == [pc |-> "start", x |-> <<h, w>>, y |-> <<0, 0>>]
SeqIdle == SeqInit(<<3, 3>>, <<1, 1>>)

\* seq.forward: the spatial size self.conv gives its input
SeqConv(m, x) ==
    [a \in 1..2 |-> ConvOut(x[a], m.kernel_size[a], m.padding[a],
                            m.dilation[a], m.stride[a])]

SeqConvFits(m, x) ==
    \A a \in 1..2 : ConvFits(x[a], m.kernel_size[a], m.padding[a], m.dilation[a])

(***************************************************************************)
(* WRN_MOS.py : BasicBlock                                                 *)
(***************************************************************************)
\* Mutation of BasicBlockInit: the 1x1 shortcut is always instantiated
BasicBlockInitAlwaysShortcut(in_planes, out_planes, stride, drop) ==
    [in_planes |-> in_planes, out_planes |-> out_planes, stride |-> stride,
     droprate_pos |-> drop,
     equalInOut |-> (in_planes = out_planes),
     convShortcut |-> TRUE]

\* BasicBlock.__init__; convShortcut is TRUE for the Conv2d, FALSE for None
\* (`(not equalInOut) and Conv2d(..) or None`: a Module is truthy)
BasicBlockInit(in_planes, out_planes, stride, drop) ==
    [in_planes |-> in_planes, out_planes |-> out_planes, stride |-> stride,
     droprate_pos |-> drop,
     equalInOut |-> (in_planes = out_planes),
     convShortcut |-> ~(in_planes = out_planes)]

\* A tensor of the block: e is the chain of modules applied to the block's
\* input (<<>> is the input itself), ch its channels, hw its spatial size
InputX(b, hw) == [e |-> <<>>, ch |-> b.in_planes, hw |-> hw]
Unbound == [e |-> <<"unbound">>, ch |-> 0, hw |-> 0]

Through(t, name, ch, hw) == [e |-> Append(t.e, name), ch |-> ch, hw |-> hw]
SameShape(t, name) == Through(t, name, t.ch, t.hw)

\* self.relu1(self.bn1(t))
Relu1Bn1(t) == SameShape(SameShape(t, "bn1"), "relu1")
\* self.conv1: 3x3, padding 1, the block's stride
Conv1(b, t) == Through(t, "conv1", b.out_planes, ConvOut(t.hw, 3, 1, 1, b.stride))
\* self.conv2: 3x3, padding 1, stride 1
Conv2(b, t) == Through(t, "conv2", b.out_planes, ConvOut(t.hw, 3, 1, 1, 1))
\* self.convShortcut: 1x1, padding 0, the block's stride
ConvShortcut(b, t) ==
    Through(t, "convShortcut", b.out_planes, ConvOut(t.hw, 1, 0, 1, b.stride))

BlockEntry(b, hw) ==
    [pc |-> "preact", training |-> FALSE, x0 |-> InputX(b, hw),
     x |-> InputX(b, hw), out |-> Unbound,
     c1 |-> Unbound, sc |-> Unbound]

BlockIdle == BasicBlockInit(1, 1, 1, FALSE)

\* Mutation of ShortcutOperand: the projection reads the block's own input
ShortcutOperandOfInput(b, F) ==
    IF b.equalInOut THEN F.x ELSE ConvShortcut(b, F.x0)

\* line 41: x if self.equalInOut else self.convShortcut(x)
ShortcutOperand(b, F) ==
    IF b.equalInOut THEN F.x ELSE ConvShortcut(b, F.x)

\* torch.add(a, b): shapes must agree up to broadcasting
AddFits(a, b) ==
    /\ (a.ch = b.ch \/ a.ch = 1 \/ b.ch = 1)
    /\ (a.hw = b.hw \/ a.hw = 1 \/ b.hw = 1)

BlockConfigs ==
    { BasicBlockInit(i, o, st, dr) :
        i \in 1..MaxPlanes, o \in 1..MaxPlanes, st \in 1..2, dr \in BOOLEAN }

\* lines 32-35
BlockPreact ==
    /\ bfwd.pc = "preact"
    /\ bfwd' = IF ~block.equalInOut
               THEN [bfwd EXCEPT !.pc = "conv1", !.x = Relu1Bn1(bfwd.x)]
               ELSE [bfwd EXCEPT !.pc = "conv1", !.out = Relu1Bn1(bfwd.x)]
    /\ UNCHANGED <<layer, lfwd, block, sq, sfwd, net, nfwd, update_calls>>

\* line 36
BlockConv1 ==
    /\ bfwd.pc = "conv1"
    /\ LET arg == IF block.equalInOut THEN bfwd.out ELSE bfwd.x
       IN  bfwd' = [bfwd EXCEPT !.pc = "dropout",
                                !.c1 = arg,
                                !.out = SameShape(SameShape(Conv1(block, arg),
                                                            "bn2"), "relu2")]
    /\ UNCHANGED <<layer, lfwd, block, sq, sfwd, net, nfwd, update_calls>>

\* lines 38-39: F.dropout is the identity unless training
BlockDropout ==
    /\ bfwd.pc = "dropout"
    /\ bfwd' = IF block.droprate_pos /\ bfwd.training
               THEN [bfwd EXCEPT !.pc = "conv2", !.out = SameShape(bfwd.out, "dropout")]
               ELSE [bfwd EXCEPT !.pc = "conv2"]
    /\ UNCHANGED <<layer, lfwd, block, sq, sfwd, net, nfwd, update_calls>>

\* line 40
BlockConv2 ==
    /\ bfwd.pc = "conv2"
    /\ bfwd' = [bfwd EXCEPT !.pc = "add", !.out = Conv2(block, bfwd.out)]
    /\ UNCHANGED <<layer, lfwd, block, sq, sfwd, net, nfwd, update_calls>>

\* lines 41-43
BlockAdd ==
    /\ bfwd.pc = "add"
    /\ LET s == ShortcutOperand(block, bfwd)
       IN  bfwd' = IF AddFits(s, bfwd.out)
                   THEN [bfwd EXCEPT !.pc = "done", !.sc = s,
                                     !.out = SameShape(bfwd.out, "add")]
                   ELSE [bfwd EXCEPT !.pc = "raised", !.sc = s]
    /\ UNCHANGED <<layer, lfwd, block, sq, sfwd, net, nfwd, update_calls>>

NextBlock ==
    \/ BlockPreact
    \/ BlockConv1
    \/ BlockDropout
    \/ BlockConv2
    \/ BlockAdd

SeqConfigs ==
    { SeqInit(<<k1, k2>>, <<d1, d2>>) :
        k1 \in 1..MaxK, k2 \in 1..MaxK, d1 \in 1..MaxD, d2 \in 1..MaxD }

\* seq.forward, lines 114-127: every path applies self.conv once; batchnorm
\* and the nonlinearity keep the spatial size
SeqForward ==
    /\ sfwd.pc = "start"
    /\ sfwd' = IF SeqConvFits(sq, sfwd.x)
               THEN [sfwd EXCEPT !.pc = "done", !.y = SeqConv(sq, sfwd.x)]
               ELSE [sfwd EXCEPT !.pc = "raised"]
    /\ UNCHANGED <<layer, lfwd, block, bfwd, sq, net, nfwd, update_calls>>

NextSeq == SeqForward

(***************************************************************************)
(* WRN_MOS.py : Network                                                    *)
(***************************************************************************)
NComponents == 10
NumGroups == 1

\* Python's `c and a or b` for a condition c and integers a, b
AndOr(c, a, b) == IF c /\ a # 0 THEN a ELSE b

\* Mutation of MakeLayer: every block takes the group's in_planes
MakeLayerAllFromInput(nb_layers, in_planes, out_planes, stride, drop) ==
    [k \in 1..nb_layers |->
        BasicBlockInit(in_planes, out_planes, AndOr(k - 1 = 0, stride, 1), drop)]

\* Network._make_layer: block k of the list is the source's i = k - 1
MakeLayer(nb_layers, in_planes, out_planes, stride, drop) ==
    [k \in 1..nb_layers |->
        BasicBlockInit(AndOr(k - 1 = 0, in_planes, out_planes),
                       out_planes,
                       AndOr(k - 1 = 0, stride, 1),
                       drop)]

\* A learning rate of a parameter group: the constructor's self.lr, or
\* (0.5 * self.lr) * (1 + cos(pi * j / max_j)) for the j and max_j recorded
BaseLr == [kind |-> "base", j |-> 0, max_j |-> 1]
CosineLr(j, max_j) == [kind |-> "cosine", j |-> j, max_j |-> max_j]
\* the rate equals self.lr: cos(pi * j / max_j) = 1
FullRate(r) == r.j % (2 * r.max_j) = 0

NewNetwork(w, d, c, dr) ==
    [pc |-> "init", widen_factor |-> w, depth |-> d, nClasses |-> c,
     droprate_pos |-> dr, n_components |-> 0, nChannels |-> <<>>, n |-> 0,
     block1 |-> <<>>, block2 |-> <<>>, block3 |-> <<>>,
     fc_out |-> 0, j |-> 0, param_groups |-> <<>>]

NotRun == [ran |-> FALSE, priors |-> <<>>, mixtures |-> <<>>]

NetIdle ==
    /\ net = NewNetwork(1, 4, 1, FALSE)
    /\ nfwd = NotRun
    /\ update_calls = 0

\* Network.__init__, lines 51-57
NetworkInitHead ==
    /\ net.pc = "init"
    /\ net' = IF (net.depth - 4) % 6 = 0
              THEN [net EXCEPT !.pc = "block1",
                               !.n_components = NComponents,
                               !.nChannels = <<16, 16 * net.widen_factor,
                                               32 * net.widen_factor,
                                               64 * net.widen_factor>>,
                               !.n = (net.depth - 4) \div 6]
              ELSE [net EXCEPT !.pc = "raised"]
    /\ UNCHANGED <<layer, lfwd, block, bfwd, sq, sfwd, nfwd, update_calls>>

\* line 66
NetworkBlock1 ==
    /\ net.pc = "block1"
    /\ net' = [net EXCEPT !.pc = "block2",
                          !.block1 = MakeLayer(net.n, net.nChannels[1],
                                               net.nChannels[2], 1,
                                               net.droprate_pos)]
    /\ UNCHANGED <<layer, lfwd, block, bfwd, sq, sfwd, nfwd, update_calls>>

\* line 68
NetworkBlock2 ==
    /\ net.pc = "block2"
    /\ net' = [net EXCEPT !.pc = "block3",
                          !.block2 = MakeLayer(net.n, net.nChannels[2],
                                               net.nChannels[3], 2,
                                               net.droprate_pos)]
    /\ UNCHANGED <<layer, lfwd, block, bfwd, sq, sfwd, nfwd, update_calls>>

\* line 70
NetworkBlock3 ==
    /\ net.pc = "block3"
    /\ net' = [net EXCEPT !.pc = "tail",
                          !.block3 = MakeLayer(net.n, net.nChannels[3],
                                               net.nChannels[4], 2,
                                               net.droprate_pos)]
    /\ UNCHANGED <<layer, lfwd, block, bfwd, sq, sfwd, nfwd, update_calls>>

\* lines 72-100: the classifier, the optimizer's one parameter group at
\* self.lr, and the iteration counter
NetworkInitTail ==
    /\ net.pc = "tail"
    /\ net' = [net EXCEPT !.pc = "ready",
                          !.fc_out = (net.nClasses + 1) * net.n_components,
                          !.param_groups = [g \in 1..NumGroups |-> [lr |-> BaseLr]],
                          !.j = 0]
    /\ UNCHANGED <<layer, lfwd, block, bfwd, sq, sfwd, nfwd, update_calls>>

\* Mutation of UpdateLrOn: the counter is advanced before the rate is set
UpdateLrIncrementFirst(n, max_j) ==
    [n EXCEPT !.param_groups = [g \in DOMAIN n.param_groups |->
                                   [n.param_groups[g] EXCEPT !.lr = CosineLr(n.j + 1, max_j)]],
              !.j = n.j + 1]

\* Network.update_lr(max_j) on the network n
UpdateLrOn(n, max_j) ==
    [n EXCEPT !.param_groups = [g \in DOMAIN n.param_groups |->
                                   [n.param_groups[g] EXCEPT !.lr = CosineLr(n.j, max_j)]],
              !.j = n.j + 1]

\* update_lr is called with a positive maximum iteration count
UpdateLr ==
    /\ net.pc = "ready"
    /\ update_calls < MaxCalls
    /\ \E max_j \in 1..MaxMaxJ : net' = UpdateLrOn(net, max_j)
    /\ update_calls' = update_calls + 1
    /\ UNCHANGED <<layer, lfwd, block, bfwd, sq, sfwd, nfwd>>

\* Python's seq[start:stop] over a dimension of size len: the 0-based
\* indices it selects, in order
PyNorm(len, v) == IF v < 0 THEN (IF len + v < 0 THEN 0 ELSE len + v)
                  ELSE (IF v > len THEN len ELSE v)
PySlice(len, start, stop) ==
    LET lo == PyNorm(len, start)
        hi == PyNorm(len, stop)
    IN  [k \in 1..(IF hi > lo THEN hi - lo ELSE 0) |-> lo + k - 1]

\* line 124: context[:, -self.n_components:]
PriorSlice(n) == PySlice(n.fc_out, -n.n_components, n.fc_out)

\* Mutation of ClassSlice: the blocks are strided by nClasses + 1
ClassSliceStridePlusOne(n, i) ==
    PySlice(n.fc_out, i * (n.nClasses + 1), (i + 1) * (n.nClasses + 1))

\* line 125: context[:, i * self.nClasses : (i + 1) * self.nClasses]
ClassSlice(n, i) == PySlice(n.fc_out, i * n.nClasses, (i + 1) * n.nClasses)

\* lines 121-126: the fc output has fc_out columns; component i of the
\* mixture multiplies priors[:, i] with the softmax of its class slice
Mixtures(n) ==
    [k \in 1..n.n_components |-> [prior |-> k - 1, cls |-> ClassSlice(n, k - 1)]]

\* Network.forward: the trunk (conv1, the three groups, bn, relu, pooling,
\* fc) assigns no attribute of the network; the head reads the fc output
NetForward ==
    /\ net.pc = "ready"
    /\ nfwd' = [ran |-> TRUE, priors |-> PriorSlice(net), mixtures |-> Mixtures(net)]
    /\ UNCHANGED <<layer, lfwd, block, bfwd, sq, sfwd, net, update_calls>>

NextNet ==
    \/ NetworkInitHead
    \/ NetworkBlock1
    \/ NetworkBlock2
    \/ NetworkBlock3
    \/ NetworkInitTail
    \/ UpdateLr
    \/ NetForward

(***************************************************************************)
(* layers.py : Layer                                                       *)
(***************************************************************************)
GateStyles == {"mult", "add_split"}
NormStyles == {"before", "sandwich", "full", "WN"}

NoTensor == [id |-> 0, ch |-> 0]

\* An entry of Layer.op: a seq module (layers.py 198-205) or the bare
\* nn.Module() placeholder appended for an absent branch (layers.py 208).
\* i is the 0-based branch index of the source.
LayerOpEntry(i, o, nb, no, sbn, pre) ==
    IF o
    THEN [kind |-> "seq",
          n_in |-> IF i % 2 = 1 THEN no ELSE nb,
          n_out |-> no,
          batchnorm |-> sbn,
          preactivation |-> pre]
    ELSE [kind |-> "Module",
          n_in |-> 0,
          n_out |-> 0,
          batchnorm |-> FALSE,
          preactivation |-> FALSE]

\* Layer.__init__ with the default dilation, kernel_size, groups and
\* activation lists.
LayerInit(ni, nb, no, o, g, gs, pre, ns) ==
    [n_in |-> ni, n_bottle |-> nb, n_out |-> no,
     ops |-> o, gate |-> g, gate_style |-> gs,
     preactivation |-> pre, norm_style |-> ns,
     seq_bn |-> (ns = "full"),
     op |-> [k \in 1..4 |-> LayerOpEntry(k - 1, o[k], nb, no, ns = "full", pre)]]

\* 0-based accessors, as the source indexes them
Op(i) == layer.op[i + 1]
Ops(i) == layer.ops[i + 1]
Gate(i) == layer.gate[i + 1]
\* type(self.op[i]) is seq
IsSeq(i) == Op(i).kind = "seq"

Single(t) == [isList |-> FALSE, ts |-> <<t>>]
Pair(a, b) == [isList |-> TRUE, ts |-> <<a, b>>]

\* The frame F carries the call log, the next fresh tensor identity, whether
\* an exception has been raised, and the value of the last subexpression.
Raise(F, entry) ==
    [F EXCEPT !.calls = Append(@, entry), !.err = TRUE, !.val = NoTensor]

Produce(F, entry, ch) ==
    LET t == [id |-> F.fresh, ch |-> ch]
    IN  [F EXCEPT !.calls = Append(@, [entry EXCEPT !.r = t, !.ok = TRUE]),
                  !.fresh = @ + 1,
                  !.val = t]

\* Whether seq.forward accepts an input of x.ch channels: the convolution
\* takes m.n_in channels; BatchNorm2d(n_in) is applied to the input under
\* preactivation and to the convolution's n_out-channel output otherwise.
SeqAccepts(m, x) ==
    /\ x.ch = m.n_in
    /\ (m.batchnorm /\ ~m.preactivation) => m.n_in = m.n_out

\* self.op[i](x, f): seq.forward on a seq, NotImplementedError on the
\* nn.Module() placeholder.
CallOp(F, i, x, f) ==
    LET e == [fn |-> "op", i |-> i, f |-> f, a |-> x, b |-> NoTensor,
              r |-> NoTensor, ok |-> FALSE]
    IN  IF F.err THEN F
        ELSE IF ~IsSeq(i) THEN Raise(F, e)
        ELSE IF ~SeqAccepts(Op(i), x) THEN Raise(F, e)
        ELSE Produce(F, e, Op(i).n_out)

\* Can channel counts a and b be combined elementwise (broadcasting)?
Broadcastable(a, b) == a = b \/ a = 1 \/ b = 1
BroadcastCh(a, b) == IF a = b THEN a ELSE IF a = 1 THEN b ELSE a

\* a + b  or  a * b
Elementwise(F, fn, a, b) ==
    LET e == [fn |-> fn, i |-> -1, f |-> "-", a |-> a, b |-> b,
              r |-> NoTensor, ok |-> FALSE]
    IN  IF F.err THEN F
        ELSE IF ~Broadcastable(a.ch, b.ch) THEN Raise(F, e)
        ELSE Produce(F, e, BroadcastCh(a.ch, b.ch))

\* Channel counts of pre_gate[:,::2] and pre_gate[:,1::2]
EvenChannels(c) == (c + 1) \div 2
OddChannels(c) == c \div 2

\* F.tanh(pre_gate[:,::2]) * F.sigmoid(pre_gate[:,1::2])
GateSplit(F, p) ==
    IF F.err THEN F
    ELSE LET ev == [id |-> F.fresh, ch |-> EvenChannels(p.ch)]
             od == [id |-> F.fresh + 1, ch |-> OddChannels(p.ch)]
         IN  Elementwise([F EXCEPT !.fresh = @ + 2], "mul", ev, od)

\* out = <value>, unless the right-hand side raised
SetOut(F, v) == IF F.err THEN F ELSE [F EXCEPT !.out = v]

\* op[p](x, tanh) * op[q](y, sigmoid)                     ("mult" gate)
GateMult(F, p, x, q, y) ==
    LET F1 == CallOp(F, p, x, "tanh")
        F2 == CallOp(F1, q, y, "sigmoid")
        F3 == Elementwise(F2, "mul", F1.val, F2.val)
    IN  SetOut(F3, Single(F3.val))

\* pre_gate = out = op[p](x) + op[q](y); out = tanh(..) * sigmoid(..)
GateAddSplit(F, p, x, q, y) ==
    LET F1 == CallOp(F, p, x, "relu")
        F2 == CallOp(F1, q, y, "relu")
        F3 == Elementwise(F2, "add", F1.val, F2.val)
        F4 == SetOut(F3, Single(F3.val))
        F5 == GateSplit(F4, F3.val)
    IN  SetOut(F5, Single(F5.val))

GateOps(F, p, x, q, y) ==
    IF layer.gate_style = "mult"
    THEN GateMult(F, p, x, q, y)
    ELSE GateAddSplit(F, p, x, q, y)

\* op[p](x) + op[q](y)
SumOps(F, p, x, q, y) ==
    LET F1 == CallOp(F, p, x, "relu")
        F2 == CallOp(F1, q, y, "relu")
        F3 == Elementwise(F2, "add", F1.val, F2.val)
    IN  SetOut(F3, Single(F3.val))

\* Layer.forward, lines 217-228
Stage0(F) ==
    LET o == F.out.ts[1]
    IN  IF Gate(0) THEN GateOps(F, 0, o, 2, o)
        ELSE IF IsSeq(2)
        THEN LET F1 == CallOp(F, 0, o, "relu")
                 F2 == CallOp(F1, 2, o, "relu")
             IN  SetOut(F2, Pair(F1.val, F2.val))
        ELSE LET F1 == CallOp(F, 0, o, "relu")
             IN  SetOut(F1, Single(F1.val))

\* Layer.forward, lines 231-236 and 248-249 and 254-255 and 259-260, where
\* `out` is the two-element list: a stands for out[0], b for out[1]
Stage1ListOn(F, a, b) ==
    IF Gate(1) THEN GateOps(F, 1, a, 3, b)
    ELSE IF IsSeq(3) THEN SumOps(F, 1, a, 3, b)
    ELSE IF IsSeq(1)
    THEN LET F1 == CallOp(F, 1, a, "relu")
             F2 == Elementwise(F1, "add", F1.val, b)
         IN  SetOut(F2, Single(F2.val))
    ELSE LET F1 == Elementwise(F, "add", a, b)
         IN  SetOut(F1, Single(F1.val))

\* Mutation of Stage1List: the two paths are crossed
Stage1ListCrossed(F) == Stage1ListOn(F, F.out.ts[2], F.out.ts[1])

\* The list case of stage 1 reads out[0] and out[1]
Stage1List(F) == Stage1ListOn(F, F.out.ts[1], F.out.ts[2])

\* Layer.forward, lines 239-244 and 250-251 and 256-257: `out` is one tensor
Stage1Single(F) ==
    LET o == F.out.ts[1]
    IN  IF Gate(1) THEN GateOps(F, 1, o, 3, o)
        ELSE IF IsSeq(3) THEN SumOps(F, 1, o, 3, o)
        ELSE IF IsSeq(1)
        THEN LET F1 == CallOp(F, 1, o, "relu")
             IN  SetOut(F1, Single(F1.val))
        ELSE F

\* Layer.forward, lines 230-260
Stage1(F) == IF F.out.isList THEN Stage1List(F) ELSE Stage1Single(F)

Finish(F, next) == [F EXCEPT !.pc = IF F.err THEN "raised" ELSE next]

LayerConfigs ==
    { LayerInit(ni, nb, no, o, g, gs, pre, ns) :
        ni \in 1..MaxIn, nb \in 1..MaxBottle, no \in 1..MaxOut,
        o \in [1..4 -> BOOLEAN], g \in [1..2 -> BOOLEAN],
        gs \in GateStyles, pre \in BOOLEAN, ns \in NormStyles }

\* The frame on entry to forward(x): x is tensor 1 with n_in channels
EntryFrame(ni) ==
    [pc |-> "start", out |-> Single([id |-> 1, ch |-> ni]), calls |-> <<>>,
     fresh |-> 2, err |-> FALSE, val |-> NoTensor, ret |-> Single(NoTensor)]

LayerIdle == LayerInit(1, 1, 1, [k \in 1..4 |-> FALSE], [k \in 1..2 |-> FALSE],
                       "add_split", TRUE, "sandwich")

\* out = self.initial_op(x): n_in -> n_bottle channels
ForwardInitialOp ==
    /\ lfwd.pc = "start"
    /\ lfwd' = [lfwd EXCEPT !.pc = "stage0",
                            !.out = Single([id |-> lfwd.fresh, ch |-> layer.n_bottle]),
                            !.fresh = @ + 1]
    /\ UNCHANGED <<layer, block, bfwd, sq, sfwd, net, nfwd, update_calls>>

ForwardStage0 ==
    /\ lfwd.pc = "stage0"
    /\ lfwd' = Finish(Stage0(lfwd), "stage1")
    /\ UNCHANGED <<layer, block, bfwd, sq, sfwd, net, nfwd, update_calls>>

ForwardStage1 ==
    /\ lfwd.pc = "stage1"
    /\ lfwd' = Finish(Stage1(lfwd), "return")
    /\ UNCHANGED <<layer, block, bfwd, sq, sfwd, net, nfwd, update_calls>>

\* return out
ForwardReturn ==
    /\ lfwd.pc = "return"
    /\ lfwd' = [lfwd EXCEPT !.pc = "done", !.ret = lfwd.out]
    /\ UNCHANGED <<layer, block, bfwd, sq, sfwd, net, nfwd, update_calls>>

NextLayer ==
    \/ ForwardInitialOp
    \/ ForwardStage0
    \/ ForwardStage1
    \/ ForwardReturn

(***************************************************************************)
(* Specifications: one per component, each started from every             *)
(* configuration within the bounds.                                        *)
(***************************************************************************)
InitBlock ==
    /\ block \in BlockConfigs
    /\ \E hw \in 1..MaxHW, tr \in BOOLEAN :
          bfwd = [BlockEntry(block, hw) EXCEPT !.training = tr]
    /\ layer = LayerIdle /\ lfwd = EntryFrame(1)
    /\ sq = SeqIdle /\ sfwd = SeqEntry(1, 1)
    /\ NetIdle

SpecBlock == InitBlock /\ [][NextBlock]_vars

InitSeq ==
    /\ sq \in SeqConfigs
    /\ \E h \in 1..MaxHW, w \in 1..MaxHW : sfwd = SeqEntry(h, w)
    /\ layer = LayerIdle /\ lfwd = EntryFrame(1)
    /\ block = BlockIdle /\ bfwd = BlockEntry(BlockIdle, 1)
    /\ NetIdle

SpecSeq == InitSeq /\ [][NextSeq]_vars

InitLayer ==
    /\ layer \in LayerConfigs
    /\ lfwd = EntryFrame(layer.n_in)
    /\ block = BlockIdle /\ bfwd = BlockEntry(BlockIdle, 1)
    /\ sq = SeqIdle /\ sfwd = SeqEntry(1, 1)
    /\ NetIdle

SpecLayer == InitLayer /\ [][NextLayer]_vars

InitNet ==
    /\ \E w \in 1..MaxWiden, d \in 4..MaxDepth, c \in 1..MaxClasses, dr \in BOOLEAN :
          net = NewNetwork(w, d, c, dr)
    /\ nfwd = NotRun
    /\ update_calls = 0
    /\ layer = LayerIdle /\ lfwd = EntryFrame(1)
    /\ block = BlockIdle /\ bfwd = BlockEntry(BlockIdle, 1)
    /\ sq = SeqIdle /\ sfwd = SeqEntry(1, 1)

SpecNet == InitNet /\ [][NextNet]_vars

(***************************************************************************)
(* Properties of Layer                                                     *)
(***************************************************************************)
CallIdx == 1..Len(lfwd.calls)
OpCalls(i) == { k \in CallIdx : lfwd.calls[k].fn = "op" /\ lfwd.calls[k].i = i }
\* the tensor initial_op returns: the second tensor of the run
InitialOut == [id |-> 2, ch |-> layer.n_bottle]
AllOpsFalse == \A k \in 1..4 : ~layer.ops[k]
NoGate == \A k \in 1..2 : ~layer.gate[k]

\* C1 (as claimed): for every ops/gate/gate_style combination forward
\* completes, every branch op it invokes has its ops flag set (no placeholder
\* is called), and with all ops and gate flags false the returned value is
\* op[0] applied to initial_op's output.
C1_ForwardCompletesOnEveryConfig ==
    /\ lfwd.pc # "raised"
    /\ \A k \in CallIdx : lfwd.calls[k].fn = "op" => Ops(lfwd.calls[k].i)
    /\ (lfwd.pc = "done" /\ AllOpsFalse /\ NoGate) =>
          /\ OpCalls(0) # {}
          /\ \A k \in OpCalls(0) : /\ lfwd.calls[k].a = InitialOut
                                   /\ lfwd.ret = Single(lfwd.calls[k].r)

\* Stage 0 hands over the pair exactly when gate[0] is false and branch 2 exists
PairHanded == ~Gate(0) /\ Ops(2)

\* At the hand-over: a pair exactly in the PairHanded case, and the pair is
\* <<op[0](initial out), op[2](initial out)>> in that order.
HandOverShape ==
    lfwd.pc = "stage1" =>
        /\ lfwd.out.isList <=> PairHanded
        /\ lfwd.out.isList =>
              \E k0 \in OpCalls(0), k2 \in OpCalls(2) :
                  /\ lfwd.calls[k0].a = InitialOut
                  /\ lfwd.calls[k2].a = InitialOut
                  /\ lfwd.out.ts = <<lfwd.calls[k0].r, lfwd.calls[k2].r>>
        /\ ~lfwd.out.isList => Len(lfwd.out.ts) = 1

\* What stage 1 feeds its branches, relative to the value handed over
StageOneFeeds ==
    (lfwd.pc = "stage1" /\ lfwd'.pc # "stage1") =>
        \A k \in (Len(lfwd.calls) + 1)..Len(lfwd'.calls) :
            LET c == lfwd'.calls[k]
            IN  c.fn = "op" =>
                  /\ c.i \in {1, 3}
                  /\ c.i = 1 => c.a = lfwd.out.ts[1]
                  /\ c.i = 3 => c.a = IF lfwd.out.isList THEN lfwd.out.ts[2]
                                                          ELSE lfwd.out.ts[1]

\* C2: stage 0 hands stage 1 the pair [branch0(out), branch2(out)] exactly
\* when gate[0] is false and branch 2 exists and a single tensor otherwise;
\* stage 1 feeds the branch-0-path value to branch 1 and the branch-2-path
\* value to branch 3 when given the pair, and the one tensor to both otherwise.
C2_StageRouting == [](HandOverShape) /\ [][StageOneFeeds]_vars

\* C2 witness: a finished run in which a pair was handed over and branches 1
\* and 3 were both invoked, on different tensors.
C2_Witness ==
    /\ lfwd.pc = "done"
    /\ PairHanded
    /\ \E k1 \in OpCalls(1), k3 \in OpCalls(3) :
          lfwd.calls[k1].a.id # lfwd.calls[k3].a.id

\* C3 (as claimed): whenever forward completes, the returned tensor has
\* exactly n_out channels.
C3_ReturnsNOutChannels ==
    lfwd.pc = "done" =>
        /\ ~lfwd.ret.isList
        /\ lfwd.ret.ts[1].ch = layer.n_out

\* The input channel count branch i was built with (layers.py 198)
BuiltIn(i) == IF i % 2 = 1 THEN layer.n_out ELSE layer.n_bottle

\* C10 (as claimed): every invoked branch op receives as many channels as it
\* was constructed for, and the operands of every elementwise sum or product
\* have equal channel counts.
C10_ChannelsAgree ==
    \A k \in CallIdx :
        LET c == lfwd.calls[k]
        IN  /\ c.fn = "op" => c.a.ch = BuiltIn(c.i)
            /\ c.fn \in {"add", "mul"} => c.a.ch = c.b.ch

(***************************************************************************)
(* Properties of BasicBlock                                                *)
(***************************************************************************)
Activated == <<"bn1", "relu1">>

\* C4 (as claimed): with in_planes # out_planes conv1 is fed the
\* normalize+activate output and the shortcut is the 1x1 convolution of the
\* original, un-normalized, un-activated block input; with equal planes the
\* shortcut is the original input.
C4_ShortcutOfOriginalInput ==
    bfwd.pc = "done" =>
        /\ bfwd.c1.e = Activated
        /\ bfwd.sc.e = IF block.equalInOut THEN <<>> ELSE <<"convShortcut">>

\* C4 (amended): with in_planes # out_planes the normalize+activate output
\* of the input feeds both conv1 and the 1x1 shortcut convolution; with equal
\* planes conv1 is fed the normalize+activate output and the shortcut is the
\* original input itself.
C4_ShortcutOfActivatedInput ==
    bfwd.pc \in {"done", "raised"} =>
        /\ bfwd.c1.e = Activated
        /\ bfwd.sc.e = IF block.equalInOut
                       THEN <<>>
                       ELSE Append(Activated, "convShortcut")

\* C4 witness: a finished forward of a block that changes the channel count
C4_Witness ==
    /\ bfwd.pc = "done"
    /\ ~block.equalInOut
    /\ "convShortcut" \in { bfwd.sc.e[k] : k \in 1..Len(bfwd.sc.e) }

(***************************************************************************)
(* Properties of seq                                                       *)
(***************************************************************************)
\* C5 (as claimed): for every kernel size and dilation the convolution seq
\* builds returns the spatial size it is given, on each axis.
C5_SizePreserved ==
    sfwd.pc = "done" => \A a \in 1..2 : sfwd.y[a] = sfwd.x[a]

\* C5 (amended): on each axis the output size equals the input size when
\* (k-1)*d is even (in particular for every odd kernel size k), and is
\* larger by exactly one when (k-1)*d is odd (even k with odd d).
C5_SizePreservedForOddExtent ==
    /\ sfwd.pc # "raised"
    /\ sfwd.pc = "done" =>
          \A a \in 1..2 :
              sfwd.y[a] = IF ((sq.kernel_size[a] - 1) * sq.dilation[a]) % 2 = 0
                          THEN sfwd.x[a]
                          ELSE sfwd.x[a] + 1

\* C5 witness: a dilated 3-wide kernel returned the size it was given
C5_Witness ==
    /\ sfwd.pc = "done"
    /\ sq.kernel_size = <<3, 3>>
    /\ sq.dilation[1] > 1
    /\ sfwd.x[1] > 1
    /\ sfwd.y = sfwd.x

(***************************************************************************)
(* Properties of Network                                                   *)
(***************************************************************************)
Built == net.pc = "ready"
AllBlocks == net.block1 \o net.block2 \o net.block3
Range(q) == { q[k] : k \in 1..Len(q) }

\* one update_lr call: the rate of every group is the cosine rule at the
\* counter's value before the call, and the counter grows by exactly one
UpdateLrStep ==
    update_calls' # update_calls =>
        /\ update_calls' = update_calls + 1
        /\ net'.j = net.j + 1
        /\ \A g \in DOMAIN net'.param_groups :
              /\ \E m \in 1..MaxMaxJ : net'.param_groups[g].lr = CosineLr(net.j, m)
              /\ update_calls = 0 => FullRate(net'.param_groups[g].lr)

\* the counter starts at 0, never decreases, and forward leaves it alone
CounterStep ==
    /\ (~Built /\ Built') => net'.j = 0
    /\ Built => net'.j >= net.j
    /\ nfwd' # nfwd => (net' = net /\ update_calls' = update_calls)

GroupAsClaimed(g, in_planes, out_planes, stride) ==
    /\ Len(g) = net.n
    /\ \A k \in 1..Len(g) :
          /\ g[k].out_planes = out_planes
          /\ k = 1 => (g[k].in_planes = in_planes /\ g[k].stride = stride)
          /\ k > 1 => (g[k].in_planes = out_planes /\ g[k].stride = 1)

\* C7: for every depth (of at least 4) with (depth-4) % 6 = 0 construction
\* succeeds and creates exactly 3 * ((depth-4)/6) blocks, (depth-4)/6 per
\* group; only the first block of a group takes the group's input channel
\* count and stride, every later block maps out_planes to out_planes at
\* stride 1.
C7_BlockCount ==
    /\ net.pc = "raised" => (net.depth - 4) % 6 # 0
    /\ Built =>
          /\ 6 * net.n = net.depth - 4
          /\ Len(AllBlocks) = 3 * net.n
          /\ GroupAsClaimed(net.block1, 16, 16 * net.widen_factor, 1)
          /\ GroupAsClaimed(net.block2, 16 * net.widen_factor, 32 * net.widen_factor, 2)
          /\ GroupAsClaimed(net.block3, 32 * net.widen_factor, 64 * net.widen_factor, 2)

\* C7 witness: a network with at least two blocks per group was built
C7_Witness ==
    /\ Built
    /\ net.n >= 2
    /\ Len(AllBlocks) = 3 * net.n

\* C8 (as claimed): in every block the constructor creates, the stride
\* differs from 1 if and only if the channel counts differ, and the 1x1
\* shortcut exists if and only if the channel counts differ.
C8_StrideIffChannelChange ==
    Built =>
        \A b \in Range(AllBlocks) :
            /\ b.stride # 1 <=> b.in_planes # b.out_planes
            /\ b.convShortcut <=> b.in_planes # b.out_planes

\* C8 (amended): in every block the constructor creates, a stride other
\* than 1 occurs only where the channel counts differ (the converse fails:
\* with widen_factor > 1 the first block of group 1 widens at stride 1), and
\* the 1x1 shortcut exists if and only if the channel counts differ.
C8_StrideOnlyWithChannelChange ==
    Built =>
        \A b \in Range(AllBlocks) :
            /\ b.stride # 1 => b.in_planes # b.out_planes
            /\ b.convShortcut <=> b.in_planes # b.out_planes
            /\ b.equalInOut <=> ~b.convShortcut

\* C8 witness: a built network holding a strided projecting block and an
\* identity-shortcut block
C8_Witness ==
    /\ Built
    /\ \E b \in Range(AllBlocks) : b.stride = 2 /\ b.convShortcut
    /\ \E b \in Range(AllBlocks) : b.stride = 1 /\ ~b.convShortcut

Columns == 0..(net.fc_out - 1)

\* C9: the fc output's (nClasses+1)*n_components columns are partitioned by
\* forward: the prior slice is the last n_components columns, class slice i
\* is columns [i*nClasses, (i+1)*nClasses), the slices are pairwise disjoint,
\* each class slice has nClasses columns, every column lies in exactly one
\* slice, and class slice i is weighted by prior i.
C9_HeadPartition ==
    nfwd.ran =>
        LET P == Range(nfwd.priors)
            S(i) == Range(nfwd.mixtures[i].cls)
            I == 1..Len(nfwd.mixtures)
        IN  /\ net.fc_out = (net.nClasses + 1) * NComponents
            /\ Len(nfwd.mixtures) = NComponents
            /\ Len(nfwd.priors) = NComponents
            /\ P = (net.fc_out - NComponents)..(net.fc_out - 1)
            /\ \A i \in I :
                  /\ Len(nfwd.mixtures[i].cls) = net.nClasses
                  /\ Cardinality(S(i)) = net.nClasses
                  /\ S(i) = ((i - 1) * net.nClasses)..(i * net.nClasses - 1)
                  /\ S(i) \cap P = {}
                  /\ nfwd.mixtures[i].prior = i - 1
                  /\ nfwd.mixtures[i].prior < Len(nfwd.priors)
            /\ \A i \in I : \A k \in I : i # k => S(i) \cap S(k) = {}
            /\ P \cup UNION { S(i) : i \in I } = Columns

\* C9 witness: forward ran on a network with more than one class
C9_Witness ==
    /\ nfwd.ran
    /\ net.nClasses > 1
    /\ Len(nfwd.mixtures) = NComponents

====
